---- MODULE Spec2Model ----
(***************************************************************************)
(* tensorpack/train/config.py: the TrainConfig object.                     *)
(*                                                                         *)
(* The state is one TrainConfig object (its attributes), the last call     *)
(* made on it with its arguments, and the exception that call raised.      *)
(* Python values are tagged records ([t |-> "int", v |-> 3], ...), so that *)
(* isinstance checks, None tests and int() coercion are modelled by what   *)
(* they do.                                                                *)
(***************************************************************************)
EXTENDS Integers, Sequences, FiniteSets, TLC

\* ----------------------------------------------------------------- bounds
\* A call of TrainConfig(...) differs from the minimal valid call
\* TrainConfig(dataflow=df, model=m, optimizer=o, callbacks=[]) in at most
\* MaxChanged arguments.
MaxChanged == 2
\* Tower counts and tower ids range over -1..MaxTower.
MaxTower == 2
\* Integer arguments and data sizes range up to MaxInt.
MaxInt == 2

\* ----------------------------------------------------------- Python values
None == [t |-> "NoneType"]
\* a keyword that the caller did not pass
Absent == [t |-> "absent"]
\* an instance of a class unrelated to every class the code tests for
Object == [t |-> "object"]
PyInt(n) == [t |-> "int", v |-> n]
PyStr(s) == [t |-> "str", chars |-> s]
PyList(xs) == [t |-> "list", items |-> xs]
\* a DataFlow / InputData whose size() returns n, or raises NotImplementedError
DataFlow(sized, n) == [t |-> "DataFlow", sized |-> sized, n |-> n]
InputData(sized, n) == [t |-> "InputData", sized |-> sized, n |-> n]
Optimizer == [t |-> "Optimizer"]
ModelDesc == [t |-> "ModelDesc"]
ConfigProto == [t |-> "ConfigProto"]
SessionInit == [t |-> "SessionInit"]
JustCurrentSession == [t |-> "SessionInit"]
\* the attributes of an object that does not exist
Unbound == [t |-> "unbound"]

\* list(range(n))
Range(n) == [i \in 1..(IF n > 0 THEN n ELSE 0) |-> i - 1]

\* ------------------------------------------------------------- exceptions
NoError == [kind |-> "none", msg |-> "", names |-> {}]
AssertionError(msg) == [kind |-> "AssertionError", msg |-> msg, names |-> {}]
TypeError(msg) == [kind |-> "TypeError", msg |-> msg, names |-> {}]
UnknownArguments(keys) ==
    [kind |-> "AssertionError", msg |-> "Unknown arguments", names |-> keys]

\* The interpreters the package runs on: `None >= 0` is False on 2 and a
\* TypeError on 3.
PythonVersions == {2, 3}

\* -------------------------------------------------------------- int(value)
Digits == <<"0", "1", "2", "3", "4", "5", "6", "7", "8", "9">>
DigitVal(c) == (CHOOSE i \in 1..10 : Digits[i] = c) - 1

RECURSIVE ParseNat(_)
ParseNat(s) ==
    IF s = <<>> THEN 0
    ELSE 10 * ParseNat(SubSeq(s, 1, Len(s) - 1)) + DigitVal(s[Len(s)])

\* int(v) for an int or a decimal string
int(v) ==
    IF v.t = "int" THEN v.v
    ELSE IF Head(v.chars) = "-" THEN 0 - ParseNat(Tail(v.chars))
    ELSE ParseNat(v.chars)

\* ------------------------------------------ TrainConfig.__init__, by section
\* the defaults of the signature
default_session_config == ConfigProto
default_starting_epoch_zero == PyInt(0)
default_starting_epoch == PyInt(1)
default_max_epoch == PyInt(99999)
default_nr_tower == PyInt(1)
default_predict_tower == PyList(<<0>>)

\* the value a parameter is bound to: the argument, or the default
Bind(arg, default) == IF arg = Absent THEN default ELSE arg

\* assert isinstance(v, tp): TRUE when the assertion passes
assert_type(v, tp) == v.t = tp

\* kwargs.pop(key, None) leaves the other keys
Pop(kwargs, key) == [k \in DOMAIN kwargs \ {key} |-> kwargs[k]]

\* if 'dataset' in kwargs: dataflow = kwargs.pop('dataset')
dataset_shim(dataflow, kwargs) ==
    IF "dataset" \in DOMAIN kwargs
    THEN [dataflow |-> kwargs["dataset"], kwargs |-> Pop(kwargs, "dataset")]
    ELSE [dataflow |-> dataflow, kwargs |-> kwargs]

\* process_data without `assert data is None`
process_data_both_allowed(dataflow, data) ==
    IF dataflow # None
    THEN IF ~assert_type(dataflow, "DataFlow")
         THEN [raised |-> AssertionError(dataflow.t), dataflow |-> Unbound, data |-> Unbound]
         ELSE [raised |-> NoError, dataflow |-> dataflow, data |-> None]
    ELSE IF ~assert_type(data, "InputData")
         THEN [raised |-> AssertionError(data.t), dataflow |-> Unbound, data |-> Unbound]
         ELSE [raised |-> NoError, dataflow |-> None, data |-> data]

\* "process data": exactly one of dataflow / data is kept
process_data(dataflow, data) ==
    IF dataflow # None
    THEN IF data # None
         THEN [raised |-> AssertionError("dataflow and data cannot be both presented in TrainConfig!"),
               dataflow |-> Unbound, data |-> Unbound]
         ELSE IF ~assert_type(dataflow, "DataFlow")
         THEN [raised |-> AssertionError(dataflow.t), dataflow |-> Unbound, data |-> Unbound]
         ELSE [raised |-> NoError, dataflow |-> dataflow, data |-> None]
    ELSE IF ~assert_type(data, "InputData")
         THEN [raised |-> AssertionError(data.t), dataflow |-> Unbound, data |-> Unbound]
         ELSE [raised |-> NoError, dataflow |-> None, data |-> data]

\* self.optimizer = optimizer; assert_type(...)
process_optimizer(optimizer) ==
    IF assert_type(optimizer, "Optimizer") THEN NoError ELSE AssertionError(optimizer.t)

\* the defaults of extra_callbacks
default_extra_callbacks == <<"SummaryMovingAverage", "ProgressBar", "StatPrinter">>

\* Callbacks(cbs)
Callbacks(cbs) == [t |-> "Callbacks", cbs |-> cbs]

\* callback_list with the extra callbacks ahead of the caller's
callback_list_extra_first(callbacks, extra_callbacks) ==
    <<"MaintainStepCounter">> \o extra_callbacks \o callbacks

\* the list handed to Callbacks(...)
callback_list(callbacks, extra_callbacks) ==
    <<"MaintainStepCounter">> \o callbacks \o extra_callbacks

\* callbacks: legacy Callbacks object unwrapped, list checked, defaults added
process_callbacks(callbacks, extra_callbacks) ==
    LET cbs == IF callbacks.t = "Callbacks"
               THEN PyList(SubSeq(callbacks.cbs, 1, Len(callbacks.cbs) - 1))
               ELSE callbacks
        extra == IF extra_callbacks = None THEN default_extra_callbacks
                 ELSE extra_callbacks.items
    IN IF ~assert_type(cbs, "list")
       THEN [raised |-> AssertionError(cbs.t), callbacks |-> Unbound]
       ELSE [raised |-> NoError, callbacks |-> Callbacks(callback_list(cbs.items, extra))]

\* self.model = model; assert_type(...)
process_model(model) ==
    IF assert_type(model, "ModelDesc") THEN NoError ELSE AssertionError(model.t)

\* session_config checked; session_init defaulted and checked
process_session(session_config, session_init) ==
    LET init == IF session_init = None THEN JustCurrentSession ELSE session_init
    IN IF ~assert_type(session_config, "ConfigProto")
       THEN [raised |-> AssertionError(session_config.t), session_init |-> Unbound]
       ELSE IF ~assert_type(init, "SessionInit")
       THEN [raised |-> AssertionError(init.t), session_init |-> Unbound]
       ELSE [raised |-> NoError, session_init |-> init]

\* src.size(): the size, or None after the NotImplementedError was caught and
\* logged (logger.exception logs and returns)
size_or_logged(src) == IF src.sized THEN PyInt(src.n) ELSE None

\* resolve_steps that pops the legacy keyword and does not use it
resolve_steps_legacy_dropped(steps_per_epoch, kwargs, src) ==
    [steps_per_epoch |-> IF steps_per_epoch = None THEN size_or_logged(src)
                         ELSE PyInt(int(steps_per_epoch)),
     kwargs |-> IF steps_per_epoch = None THEN Pop(kwargs, "step_per_epoch") ELSE kwargs]

\* steps_per_epoch: explicit, else the legacy keyword, else the size of the
\* data source; src is self.dataflow if dataflow is not None, else self.data
resolve_steps(steps_per_epoch, kwargs, src) ==
    LET legacy == IF steps_per_epoch = None
                  THEN IF "step_per_epoch" \in DOMAIN kwargs
                       THEN kwargs["step_per_epoch"] ELSE None
                  ELSE steps_per_epoch
        rest == IF steps_per_epoch = None THEN Pop(kwargs, "step_per_epoch") ELSE kwargs
    IN [steps_per_epoch |-> IF legacy = None THEN size_or_logged(src)
                            ELSE PyInt(int(legacy)),
        kwargs |-> rest]

\* assert self.steps_per_epoch >= 0 and self.max_epoch > 0
check_epochs(steps_per_epoch, max_epoch, py) ==
    IF steps_per_epoch = None
    THEN IF py = 2 THEN AssertionError("")
         ELSE TypeError("'>=' not supported between instances of 'NoneType' and 'int'")
    ELSE IF steps_per_epoch.v >= 0 /\ max_epoch.v > 0 THEN NoError
    ELSE AssertionError("")

\* nr_tower property: len(self.tower)
nr_tower(tower) == Len(tower.items)

\* nr_tower setter: the value self.tower gets
nr_tower_setter(value) == PyList(Range(value.v))

\* process_tower without the assertion
process_tower_unchecked(nr_tower_arg, tower_arg) ==
    [raised |-> NoError,
     tower |-> IF tower_arg # None THEN tower_arg ELSE nr_tower_setter(nr_tower_arg)]

\* self.nr_tower = nr_tower; if tower is not None: assert self.nr_tower == 1
process_tower(nr_tower_arg, tower_arg) ==
    LET t0 == nr_tower_setter(nr_tower_arg)
    IN IF tower_arg # None
       THEN IF nr_tower(t0) = 1
            THEN [raised |-> NoError, tower |-> tower_arg]
            ELSE [raised |-> AssertionError("Cannot set both nr_tower and tower in TrainConfig!"),
                  tower |-> Unbound]
       ELSE [raised |-> NoError, tower |-> t0]

\* predict_tower: an int is wrapped into a list
process_predict_tower(predict_tower) ==
    IF predict_tower.t = "int" THEN PyList(<<predict_tower.v>>) ELSE predict_tower

\* check_kwargs that accepts leftover keywords
check_kwargs_skipped(kwargs) == NoError

\* assert len(kwargs) == 0, 'Unknown arguments: ...'
check_kwargs(kwargs) ==
    IF DOMAIN kwargs = {} THEN NoError ELSE UnknownArguments(DOMAIN kwargs)

\* the keyword arguments that land in **kwargs
KwNames == {"dataset", "step_per_epoch", "foo"}
Kwargs(a) == [k \in {n \in KwNames : a[n] # Absent} |-> a[k]]

\* the attributes of a config that was not produced
NoConfig ==
    [dataflow |-> Unbound, data |-> Unbound, optimizer |-> Unbound,
     callbacks |-> Unbound, model |-> Unbound, session_config |-> Unbound,
     session_init |-> Unbound, steps_per_epoch |-> Unbound,
     starting_epoch |-> Unbound, max_epoch |-> Unbound, tower |-> Unbound,
     predict_tower |-> Unbound]

Raise(e) == [raised |-> e, self |-> NoConfig]

\* TrainConfig(**a) on interpreter py: the exception raised, or the object
TrainConfig(a, py) ==
    LET shim == dataset_shim(a.dataflow, Kwargs(a))
        d == process_data(shim.dataflow, a.data)
        o == process_optimizer(a.optimizer)
        c == process_callbacks(a.callbacks, a.extra_callbacks)
        m == process_model(a.model)
        s == process_session(Bind(a.session_config, default_session_config),
                             a.session_init)
        st == resolve_steps(a.steps_per_epoch, shim.kwargs,
                            IF shim.dataflow # None THEN d.dataflow ELSE d.data)
        starting == PyInt(int(Bind(a.starting_epoch, default_starting_epoch)))
        max == PyInt(int(Bind(a.max_epoch, default_max_epoch)))
        e == check_epochs(st.steps_per_epoch, max, py)
        t == process_tower(Bind(a.nr_tower, default_nr_tower), a.tower)
        k == check_kwargs(st.kwargs)
    IN IF d.raised # NoError THEN Raise(d.raised)
       ELSE IF o # NoError THEN Raise(o)
       ELSE IF c.raised # NoError THEN Raise(c.raised)
       ELSE IF m # NoError THEN Raise(m)
       ELSE IF s.raised # NoError THEN Raise(s.raised)
       ELSE IF e # NoError THEN Raise(e)
       ELSE IF t.raised # NoError THEN Raise(t.raised)
       ELSE IF k # NoError THEN Raise(k)
       ELSE [raised |-> NoError,
             self |-> [dataflow |-> d.dataflow, data |-> d.data,
                       optimizer |-> a.optimizer, callbacks |-> c.callbacks,
                       model |-> a.model,
                       session_config |-> Bind(a.session_config, default_session_config),
                       session_init |-> s.session_init,
                       steps_per_epoch |-> st.steps_per_epoch,
                       starting_epoch |-> starting, max_epoch |-> max,
                       tower |-> t.tower,
                       predict_tower |-> process_predict_tower(
                           Bind(a.predict_tower, default_predict_tower))]]

\* ----------------------------------------------------- TrainConfig.set_tower
\* `if nr_tower:` -- None and 0 are false
truthy(v) == v # None /\ v.v # 0

\* set_tower(nr_tower, tower): the exception raised and the value self.tower
\* holds afterwards (old when the first assertion fails before the write)
set_tower(old, nr_tower_arg, tower_arg) ==
    IF ~(nr_tower_arg = None \/ tower_arg = None)
    THEN [raised |-> AssertionError("Cannot set both nr_tower and tower!"), tower |-> old]
    ELSE LET new == IF truthy(nr_tower_arg) THEN PyList(Range(nr_tower_arg.v))
                    ELSE IF tower_arg.t = "int" THEN PyList(Range(tower_arg.v))
                    ELSE tower_arg
         IN [raised |-> IF new.t = "list" THEN NoError ELSE AssertionError(""),
             tower |-> new]

\* nr_tower read through the property: len(self.tower), a TypeError when
\* self.tower has no len()
nr_tower_getter(t) ==
    IF t.t = "list" THEN [raised |-> NoError, ret |-> PyInt(nr_tower(t))]
    ELSE [raised |-> TypeError("object has no len()"), ret |-> None]

\* ------------------------------------------------------- the calls explored
NumStrings == {<<"5">>, <<"-", "1", "2">>}
Numbers == {PyInt(n) : n \in -1..MaxInt} \cup {PyStr(s) : s \in NumStrings}
CallbackLists ==
    {<<>>, <<"ModelSaver">>, <<"ModelSaver", "InferenceRunner">>,
     <<"InferenceRunner", "ModelSaver">>}
TowerLists == {<<>>, <<MaxTower>>, <<1, 0>>, Range(MaxTower)}

ArgNames ==
    <<"dataflow", "data", "model", "optimizer", "callbacks", "extra_callbacks",
      "session_config", "session_init", "starting_epoch", "steps_per_epoch",
      "max_epoch", "nr_tower", "tower", "predict_tower",
      "dataset", "step_per_epoch", "foo">>

\* the values tried for each argument
ArgValues(name) ==
    CASE name = "dataflow" ->
           {None, Object, DataFlow(FALSE, 0)} \cup {DataFlow(TRUE, n) : n \in 0..MaxInt}
      [] name = "data" ->
           {None, Object, InputData(FALSE, 0)} \cup {InputData(TRUE, n) : n \in 0..MaxInt}
      [] name = "model" -> {None, ModelDesc}
      [] name = "optimizer" -> {None, Optimizer}
      [] name = "callbacks" ->
           {None, Callbacks(<<>>), Callbacks(<<"ModelSaver", "StatPrinter">>)}
           \cup {PyList(l) : l \in CallbackLists}
      [] name = "extra_callbacks" -> {None, PyList(<<>>), PyList(<<"ProgressBar">>)}
      [] name = "session_config" -> {Absent, ConfigProto, Object}
      [] name = "session_init" -> {None, SessionInit, Object}
      [] name = "starting_epoch" -> {Absent} \cup Numbers
      [] name = "steps_per_epoch" -> {None} \cup Numbers
      [] name = "max_epoch" -> {Absent} \cup Numbers
      [] name = "nr_tower" -> {Absent} \cup {PyInt(n) : n \in -1..MaxTower}
      [] name = "tower" -> {None} \cup {PyList(l) : l \in TowerLists}
      [] name = "predict_tower" ->
           {Absent, PyInt(-1), PyInt(MaxTower), PyList(<<0, 1>>)}
      [] name = "dataset" ->
           {Absent, None, Object, DataFlow(FALSE, 0), DataFlow(TRUE, MaxInt)}
      [] name = "step_per_epoch" -> {Absent, None} \cup Numbers
      [] name = "foo" -> {Absent, Object}

\* TrainConfig(dataflow=df, model=m, optimizer=o, callbacks=[])
MinimalCall ==
    [dataflow |-> DataFlow(TRUE, 1), data |-> None, model |-> ModelDesc,
     optimizer |-> Optimizer, callbacks |-> PyList(<<>>), extra_callbacks |-> None,
     session_config |-> Absent, session_init |-> None, starting_epoch |-> Absent,
     steps_per_epoch |-> None, max_epoch |-> Absent, nr_tower |-> Absent,
     tower |-> None, predict_tower |-> Absent,
     dataset |-> Absent, step_per_epoch |-> Absent, foo |-> Absent]

\* the arguments of a call that differ from the minimal call
Changed(a) == {i \in 1..Len(ArgNames) : a[ArgNames[i]] # MinimalCall[ArgNames[i]]}

\* the arguments tried for the mutators
CountValues == {PyInt(n) : n \in -1..MaxTower}
SetTowerCounts == {None} \cup {PyInt(n) : n \in 0..MaxTower}
SetTowerTowers == {None, PyInt(MaxTower), PyList(<<1, 0>>)}

\* ------------------------------------------------------------------ state
VARIABLES
    phase,           \* "start", "constructed", or "failed" (__init__ raised)
    args,            \* the keyword arguments the caller has put together
    call,            \* the last call made, with its arguments
    raised,          \* the exception the last call raised, or NoError
    dataflow, data, optimizer, callbacks, model, session_config, session_init,
    steps_per_epoch, starting_epoch, max_epoch, predict_tower,
    tower            \* self.tower

fixed == <<dataflow, data, optimizer, callbacks, model, session_config,
           session_init, steps_per_epoch, starting_epoch, max_epoch, predict_tower>>
vars == <<phase, args, call, raised, fixed, tower>>

Init ==
    /\ phase = "start"
    /\ args = MinimalCall
    /\ call = [op |-> "none"]
    /\ raised = NoError
    /\ dataflow = Unbound /\ data = Unbound /\ optimizer = Unbound
    /\ callbacks = Unbound /\ model = Unbound /\ session_config = Unbound
    /\ session_init = Unbound /\ steps_per_epoch = Unbound
    /\ starting_epoch = Unbound /\ max_epoch = Unbound /\ predict_tower = Unbound
    /\ tower = Unbound

\* the caller sets one keyword argument of the call it is about to make
Supply ==
    /\ phase = "start"
    /\ \E i \in 1..Len(ArgNames) :
         /\ Cardinality(Changed(args) \cup {i}) <= MaxChanged
         /\ \E v \in ArgValues(ArgNames[i]) : args' = [args EXCEPT ![ArgNames[i]] = v]
    /\ UNCHANGED <<phase, call, raised, fixed, tower>>

\* config = TrainConfig(**args)
Construct ==
    /\ phase = "start"
    /\ \E py \in PythonVersions :
         LET r == TrainConfig(args, py)
         IN /\ call' = [op |-> "__init__", args |-> args]
            /\ raised' = r.raised
            /\ phase' = IF r.raised = NoError THEN "constructed" ELSE "failed"
            /\ dataflow' = r.self.dataflow
            /\ data' = r.self.data
            /\ optimizer' = r.self.optimizer
            /\ callbacks' = r.self.callbacks
            /\ model' = r.self.model
            /\ session_config' = r.self.session_config
            /\ session_init' = r.self.session_init
            /\ steps_per_epoch' = r.self.steps_per_epoch
            /\ starting_epoch' = r.self.starting_epoch
            /\ max_epoch' = r.self.max_epoch
            /\ predict_tower' = r.self.predict_tower
            /\ tower' = r.self.tower
    /\ args' = MinimalCall

\* config.nr_tower = value
SetNrTower ==
    /\ phase = "constructed"
    /\ \E value \in CountValues :
         /\ tower' = nr_tower_setter(value)
         /\ call' = [op |-> "nr_tower.setter", args |-> [value |-> value]]
    /\ raised' = NoError
    /\ UNCHANGED <<phase, args, fixed>>

\* n = config.nr_tower
GetNrTower ==
    /\ phase = "constructed"
    /\ call' = [op |-> "nr_tower", args |-> [ret |-> nr_tower_getter(tower).ret]]
    /\ raised' = nr_tower_getter(tower).raised
    /\ UNCHANGED <<phase, args, fixed, tower>>

\* config.set_tower(nr_tower, tower)
SetTower ==
    /\ phase = "constructed"
    /\ \E n \in SetTowerCounts, t \in SetTowerTowers :
         LET r == set_tower(tower, n, t)
         IN /\ tower' = r.tower
            /\ raised' = r.raised
            /\ call' = [op |-> "set_tower", args |-> [nr_tower |-> n, tower |-> t]]
    /\ UNCHANGED <<phase, args, fixed>>

Next == Supply \/ Construct \/ SetNrTower \/ GetNrTower \/ SetTower

Spec == Init /\ [][Next]_vars

\* ----------------------------------------------------------------- claims
\* the state right after TrainConfig(...) returned or raised
InitCalled == call.op = "__init__"
\* the dataflow in effect: the legacy dataset keyword overrides dataflow
SuppliedDataflow == dataset_shim(call.args.dataflow, Kwargs(call.args)).dataflow
\* the data source whose size() the constructor asks for
SizeSource == IF SuppliedDataflow # None THEN SuppliedDataflow ELSE call.args.data
LegacyStepsSupplied == call.args.step_per_epoch \notin {Absent, None}
UnknownCheckFailed == raised.msg = "Unknown arguments"

\* C1: construction fails with an assertion (configuration) error whenever
\* both a dataflow and data are supplied and whenever neither is; every
\* constructed config has exactly one of dataflow / data non-None.
C1_ExactlyOneDataSource ==
    /\ (InitCalled /\ ((SuppliedDataflow # None) <=> (call.args.data # None)))
         => (phase = "failed" /\ raised.kind = "AssertionError")
    /\ phase = "constructed"
         => \/ (dataflow.t = "DataFlow" /\ data = None)
            \/ (dataflow = None /\ data.t = "InputData")

\* C1 witness: a construction given both a dataflow and data was rejected by
\* the exclusivity assertion.
C1_Witness ==
    /\ InitCalled /\ phase = "failed"
    /\ SuppliedDataflow.t = "DataFlow" /\ call.args.data.t = "InputData"
    /\ raised.msg = "dataflow and data cannot be both presented in TrainConfig!"

\* C2 (as claimed): with no steps_per_epoch and no step_per_epoch, and a data
\* source whose size() is undefined, construction fails with the assertion
\* (configuration) error every other validation failure raises.
C2_UndefinedSizeIsConfigError ==
    (/\ InitCalled
     /\ call.args.steps_per_epoch = None /\ ~LegacyStepsSupplied
     /\ SizeSource.t \in {"DataFlow", "InputData"} /\ ~SizeSource.sized)
        => (phase = "failed" /\ raised.kind = "AssertionError")

\* C3 (as claimed): construction fails whenever a tower list is supplied
\* together with any tower count, a count of 1 included.
C3_ListAndAnyCountFails ==
    (InitCalled /\ call.args.tower # None /\ call.args.nr_tower # Absent)
        => phase = "failed"

\* C3 (amended): construction fails whenever a tower list is supplied together
\* with a tower count other than 1; with a supplied count of 1 the list is
\* accepted and becomes the tower list.
C3_ListAndCountNotOneFails ==
    (InitCalled /\ call.args.tower # None /\ call.args.nr_tower # Absent)
        => /\ call.args.nr_tower.v # 1 => phase = "failed"
           /\ phase = "constructed" => tower = call.args.tower

\* C3 witness: a tower list with a count other than 1 was rejected by the
\* tower assertion.
C3_Witness ==
    /\ InitCalled /\ phase = "failed"
    /\ call.args.tower # None /\ call.args.nr_tower # Absent
    /\ call.args.nr_tower.v > 1
    /\ raised.msg = "Cannot set both nr_tower and tower in TrainConfig!"

\* C4 (as claimed): after a successful construction and any nr_tower writes
\* and set_tower calls, tower is a list and reading nr_tower returns its
\* length; a construction with count n and no list, and a write nr_tower = n,
\* leave tower = [0, ..., n-1].
C4_TowerAlwaysList ==
    phase = "constructed" =>
        /\ tower.t = "list"
        /\ nr_tower_getter(tower) = [raised |-> NoError, ret |-> PyInt(Len(tower.items))]
        /\ call.op = "nr_tower" => (raised = NoError /\ call.args.ret = PyInt(Len(tower.items)))
        /\ call.op = "nr_tower.setter" => tower = PyList(Range(call.args.value.v))
        /\ (InitCalled /\ call.args.tower = None)
             => tower = PyList(Range(Bind(call.args.nr_tower, default_nr_tower).v))

\* C5: given a callbacks list and no extra_callbacks, the callbacks are
\* [MaintainStepCounter] + callbacks + [SummaryMovingAverage, ProgressBar,
\* StatPrinter]: step counter first, StatPrinter last.
C5_CallbackOrder ==
    (/\ InitCalled /\ phase = "constructed"
     /\ call.args.callbacks.t = "list" /\ call.args.extra_callbacks = None)
        => /\ callbacks.t = "Callbacks"
           /\ callbacks.cbs = <<"MaintainStepCounter">> \o call.args.callbacks.items
                                \o <<"SummaryMovingAverage", "ProgressBar", "StatPrinter">>
           /\ Head(callbacks.cbs) = "MaintainStepCounter"
           /\ callbacks.cbs[Len(callbacks.cbs)] = "StatPrinter"

\* C5 witness: a config built from two caller callbacks and no extra_callbacks.
C5_Witness ==
    /\ InitCalled /\ phase = "constructed"
    /\ call.args.callbacks = PyList(<<"InferenceRunner", "ModelSaver">>)
    /\ call.args.extra_callbacks = None

\* C6: on success steps_per_epoch is int(steps_per_epoch) when that is given
\* ("5" gives 5), else int(step_per_epoch) when the legacy keyword is given,
\* else the size of the data source supplied.
C6_StepsPerEpochResolution ==
    (InitCalled /\ phase = "constructed") =>
        /\ steps_per_epoch =
             IF call.args.steps_per_epoch # None
             THEN PyInt(int(call.args.steps_per_epoch))
             ELSE IF LegacyStepsSupplied THEN PyInt(int(call.args.step_per_epoch))
             ELSE PyInt(SizeSource.n)
        /\ call.args.steps_per_epoch = PyStr(<<"5">>) => steps_per_epoch = PyInt(5)
        /\ (call.args.steps_per_epoch = None /\ call.args.step_per_epoch = PyStr(<<"5">>))
             => steps_per_epoch = PyInt(5)

\* C6 witness: a config whose steps_per_epoch came from the legacy keyword
\* given as the string "5".
C6_Witness ==
    /\ InitCalled /\ phase = "constructed"
    /\ call.args.steps_per_epoch = None
    /\ call.args.step_per_epoch = PyStr(<<"5">>)
    /\ steps_per_epoch = PyInt(5)

\* the steps_per_epoch the constructor resolves, None when there is none
ResolvedSteps ==
    IF call.args.steps_per_epoch # None THEN PyInt(int(call.args.steps_per_epoch))
    ELSE IF LegacyStepsSupplied THEN PyInt(int(call.args.step_per_epoch))
    ELSE IF SizeSource.t \in {"DataFlow", "InputData"} /\ SizeSource.sized
    THEN PyInt(SizeSource.n)
    ELSE None

\* C7 (as claimed): a constructed config has integer steps_per_epoch,
\* starting_epoch and max_epoch with steps_per_epoch >= 0 and max_epoch > 0;
\* a construction whose resolved steps_per_epoch is negative or whose
\* max_epoch is <= 0 fails with an assertion (configuration) error.
C7_EpochNumbersChecked ==
    /\ phase = "constructed"
         => /\ steps_per_epoch.t = "int" /\ starting_epoch.t = "int" /\ max_epoch.t = "int"
            /\ steps_per_epoch.v >= 0 /\ max_epoch.v > 0
    /\ (/\ InitCalled
        /\ \/ (ResolvedSteps # None /\ ResolvedSteps.v < 0)
           \/ int(Bind(call.args.max_epoch, default_max_epoch)) <= 0)
         => (phase = "failed" /\ raised.kind = "AssertionError")

\* C8 (as claimed): an unrecognized keyword makes construction fail, the
\* unknown-argument error naming it; a construction with only recognized and
\* legacy keywords never fails on the unknown-argument check.
C8_OnlyUnknownKeywordsRejected ==
    InitCalled =>
        /\ call.args.foo # Absent
             => /\ phase = "failed"
                /\ UnknownCheckFailed
                     => (raised.kind = "AssertionError" /\ "foo" \in raised.names)
        /\ call.args.foo = Absent => ~UnknownCheckFailed

\* C8 (amended): an unrecognized keyword makes construction fail, the
\* unknown-argument error naming it; a construction with only recognized and
\* legacy keywords fails on the unknown-argument check only when
\* step_per_epoch is passed together with a steps_per_epoch that is not None:
\* the legacy keyword is then left unconsumed, construction fails, and the
\* unknown-argument error names step_per_epoch.
C8_UnconsumedKeywordsRejected ==
    InitCalled =>
        /\ call.args.foo # Absent
             => /\ phase = "failed"
                /\ UnknownCheckFailed
                     => (raised.kind = "AssertionError" /\ "foo" \in raised.names)
        /\ (call.args.foo = Absent /\ UnknownCheckFailed)
             => /\ call.args.steps_per_epoch # None
                /\ call.args.step_per_epoch # Absent
                /\ raised.names = {"step_per_epoch"}
        /\ (call.args.steps_per_epoch # None /\ call.args.step_per_epoch # Absent)
             => phase = "failed"

\* C8 witness: construction reached the unknown-argument check and failed
\* there, naming the unrecognized keyword.
C8_Witness ==
    /\ InitCalled /\ phase = "failed"
    /\ call.args.foo # Absent
    /\ UnknownCheckFailed /\ raised.names = {"foo"}

\* C9 (as claimed): a constructed config has an integer starting epoch >= 1,
\* equal to 1 when starting_epoch is not supplied.
C9_StartingEpochPositive ==
    phase = "constructed" =>
        /\ starting_epoch.t = "int" /\ starting_epoch.v >= 1
        /\ (InitCalled /\ call.args.starting_epoch = Absent) => starting_epoch.v = 1

\* C9 (amended): a constructed config has an integer starting epoch, equal to
\* int(starting_epoch) when supplied (zero and negative values included) and
\* to 1 when starting_epoch is not supplied.
C9_StartingEpochCoerced ==
    phase = "constructed" =>
        /\ starting_epoch.t = "int"
        /\ InitCalled =>
             starting_epoch.v = IF call.args.starting_epoch = Absent THEN 1
                                ELSE int(call.args.starting_epoch)

\* C9 witness: a config constructed without starting_epoch.
C9_Witness ==
    /\ InitCalled /\ phase = "constructed"
    /\ call.args.starting_epoch = Absent /\ starting_epoch = PyInt(1)

\* C10 (as claimed): set_tower with both a count and a list fails; with only
\* a count n >= 0 it sets tower to [0, ..., n-1]; with only a list it sets
\* tower to that list; and when it returns normally tower is a list.
C10_SetTower ==
    call.op = "set_tower" =>
        /\ (call.args.nr_tower # None /\ call.args.tower # None) => raised # NoError
        /\ (call.args.nr_tower # None /\ call.args.tower = None /\ call.args.nr_tower.v >= 0)
             => (raised = NoError /\ tower = PyList(Range(call.args.nr_tower.v)))
        /\ (call.args.nr_tower = None /\ call.args.tower.t = "list")
             => (raised = NoError /\ tower = call.args.tower)
        /\ raised = NoError => tower.t = "list"

====
